---- MODULE Spec2Model ----
(***************************************************************************)
(* Model of doc-input-gen (src/generate.go): the project summary           *)
(* generator.  Paths, file contents, ignore files, pattern files and the   *)
(* output document are strings; the two tree walks of                      *)
(* generateProjectSummary are modelled one callback invocation per step.   *)
(***************************************************************************)
EXTENDS Integers, Sequences, FiniteSets, TLC

VARIABLES
    tree,          \* relative paths of the entries that exist under rootDir
    content,       \* content[p]: bytes of the regular file p
    env,           \* I/O failures of the filesystem, fixed for a behaviour
    option,        \* the answer to generate()'s second prompt
    pc,            \* position in generate() / generateProjectSummary()
    queue,         \* entries the running walk has still to visit
    regexPatterns, \* the compiled patterns handed to generateProjectSummary
    gitIgnore,     \* compiled .gitignore (NIL when the file is absent)
    summaryIgnore, \* compiled .summaryignore (NIL when the file is absent)
    outOpen,       \* outFile is open for writing
    structure,     \* the map built by captureDirectoryStructure
    stdout,        \* diagnostics printed with fmt.Printf, in order
    sections,      \* history: the file sections written by this run
    visits,        \* history: callback invocations <<walk, path>> of this run
    walkErrs,      \* history: entries a walk reported with err != nil
    readErrs,      \* history: files whose os.ReadFile failed in processFile
    runs,          \* number of runs of generate() started so far
    prevOut,       \* output file content when the previous run ended
    bfile,         \* isBinary harness: the file handed to isBinary
    bres           \* isBinary harness: the value returned

vars == <<tree, content, env, option, pc, queue, regexPatterns, gitIgnore,
          summaryIgnore, outOpen, structure, stdout, sections, visits,
          walkErrs, readErrs, runs, prevOut, bfile, bres>>

-----------------------------------------------------------------------------
(* Strings as byte sequences.                                              *)

\* The byte 0x00, which a TLA+ string literal cannot hold, is written "@".
NUL == "@"

\* A pointer or optional value: <<>> is nil, <<v>> holds v.
NIL == <<>>

\* The three backquotes of a fence, which a TLA+ string literal cannot hold.
Fence == "'''"

Min(a, b) == IF a < b THEN a ELSE b

At(s, i) == SubSeq(s, i, i)

\* strings.HasPrefix
HasPrefix(s, prefix) ==
    /\ Len(prefix) <= Len(s)
    /\ SubSeq(s, 1, Len(prefix)) = prefix

HasSuffix(s, suffix) ==
    /\ Len(suffix) <= Len(s)
    /\ SubSeq(s, Len(s) - Len(suffix) + 1, Len(s)) = suffix

\* The printable ASCII characters in code order: 0x20..0x5F and 0x61..0x7E
\* (0x60, the backquote, cannot be written in a TLA+ string literal).
AsciiLow == " !\"#$%&'()*+,-./0123456789:;<=>?@ABCDEFGHIJKLMNOPQRSTUVWXYZ[\\]^_"

AsciiHigh == "abcdefghijklmnopqrstuvwxyz{|}~"

Code(c) ==
    IF c = "\n" THEN 10
    ELSE IF \E i \in 1..Len(AsciiLow) : At(AsciiLow, i) = c
         THEN 31 + (CHOOSE i \in 1..Len(AsciiLow) : At(AsciiLow, i) = c)
    ELSE 96 + (CHOOSE i \in 1..Len(AsciiHigh) : At(AsciiHigh, i) = c)

RECURSIVE TrimLeft(_, _)
TrimLeft(s, cutset) ==
    IF Len(s) > 0 /\ At(s, 1) \in cutset
    THEN TrimLeft(SubSeq(s, 2, Len(s)), cutset) ELSE s

RECURSIVE TrimRight(_, _)
TrimRight(s, cutset) ==
    IF Len(s) > 0 /\ At(s, Len(s)) \in cutset
    THEN TrimRight(SubSeq(s, 1, Len(s) - 1), cutset) ELSE s

\* strings.Trim
Trim(s, cutset) == TrimRight(TrimLeft(s, cutset), cutset)

\* strings.TrimSpace
TrimSpace(s) == Trim(s, {" ", "\t", "\n", "\r"})

\* Index of the first sep at or after position i, 0 when there is none.
RECURSIVE IndexFrom(_, _, _)
IndexFrom(s, sep, i) ==
    IF i > Len(s) THEN 0
    ELSE IF At(s, i) = sep THEN i
    ELSE IndexFrom(s, sep, i + 1)

\* strings.Split(s, "\n")
RECURSIVE Split(_)
Split(s) ==
    LET i == IndexFrom(s, "\n", 1) IN
    IF i = 0 THEN <<s>>
    ELSE <<SubSeq(s, 1, i - 1)>> \o Split(SubSeq(s, i + 1, Len(s)))

\* bufio.Scanner with ScanLines: the lines of s, without a final empty line.
ScanLines(s) ==
    LET parts == Split(s) IN
    IF parts[Len(parts)] = "" THEN SubSeq(parts, 1, Len(parts) - 1) ELSE parts

InSeq(x, seq) == \E i \in 1..Len(seq) : seq[i] = x

-----------------------------------------------------------------------------
(* Paths.                                                                  *)

LastSlash(p) ==
    IF \E i \in 1..Len(p) : At(p, i) = "/"
    THEN CHOOSE i \in 1..Len(p) :
            /\ At(p, i) = "/"
            /\ \A j \in (i + 1)..Len(p) : At(p, j) # "/"
    ELSE 0

\* filepath.Dir on a clean relative path
Dir(p) == IF LastSlash(p) = 0 THEN "." ELSE SubSeq(p, 1, LastSlash(p) - 1)

\* filepath.Base on a clean relative path
Base(p) == IF p = "" THEN "." ELSE SubSeq(p, LastSlash(p) + 1, Len(p))

\* The entry e lies below the directory d.
Below(e, d) == IF d = "." THEN e # "." ELSE HasPrefix(e, d \o "/")

\* Order of the walk: entries sorted name by name, a directory before what it
\* holds, which is byte order with the separator below every other byte.
Key(c, sepLow) == IF sepLow /\ c = "/" THEN 0 ELSE Code(c)

\* a < b in byte order (with sepLow: in the order of the walk).
RECURSIVE StrLess(_, _, _)
StrLess(a, b, sepLow) ==
    IF b = "" THEN FALSE
    ELSE IF a = "" THEN TRUE
    ELSE IF At(a, 1) = At(b, 1)
         THEN StrLess(SubSeq(a, 2, Len(a)), SubSeq(b, 2, Len(b)), sepLow)
    ELSE Key(At(a, 1), sepLow) < Key(At(b, 1), sepLow)

WalkBefore(a, b) ==
    IF a = "." THEN b # "."
    ELSE IF b = "." THEN FALSE
    ELSE StrLess(a, b, TRUE)

RECURSIVE SortPaths(_)
SortPaths(S) ==
    IF S = {} THEN <<>>
    ELSE LET m == CHOOSE x \in S : \A y \in S \ {x} : WalkBefore(x, y)
         IN <<m>> \o SortPaths(S \ {m})

-----------------------------------------------------------------------------
(* The ignore matcher.                                                     *)

predefinedIgnores ==
    <<".git", ".vscode/", "node_modules/", "vendor/", ".idea/",
      ".gitignore", ".summaryignore", "output.txt">>

\* go-gitignore, getPatternFromLine, for lines without glob characters: a
\* comment or blank line gives no pattern, a leading "!" negates.
IgnoreLine(raw) ==
    LET line == Trim(TrimRight(raw, {"\r"}), {" "}) IN
    IF line = "" \/ HasPrefix(raw, "#") THEN NIL
    ELSE IF At(line, 1) = "!"
         THEN <<[pat |-> SubSeq(line, 2, Len(line)), negate |-> TRUE]>>
    ELSE <<[pat |-> line, negate |-> FALSE]>>

RECURSIVE CompileIgnoreLines(_)
CompileIgnoreLines(lines) ==
    IF lines = <<>> THEN <<>>
    ELSE IgnoreLine(Head(lines)) \o CompileIgnoreLines(Tail(lines))

\* The regular expression go-gitignore builds for a literal line pat:
\* ^(|.*/)pat(|/.*)$, with (|.*)$ after a trailing "/" and ^(|/) for a
\* leading "/".
PatternMatches(pat, f) ==
    LET anchored == HasPrefix(pat, "/")
        body == IF anchored THEN SubSeq(pat, 2, Len(pat)) ELSE pat
        TailOK(rest) ==
            IF HasSuffix(pat, "/") THEN TRUE
            ELSE rest = "" \/ HasPrefix(rest, "/")
        MatchAt(i) ==
            /\ i + Len(body) - 1 <= Len(f)
            /\ SubSeq(f, i, i + Len(body) - 1) = body
            /\ TailOK(SubSeq(f, i + Len(body), Len(f)))
    IN  IF anchored THEN MatchAt(1)
        ELSE \E i \in 1..Len(f) :
                /\ i = 1 \/ At(f, i - 1) = "/"
                /\ MatchAt(i)

\* GitIgnore.MatchesPath: the patterns in order, a negated match undoing an
\* earlier match.
RECURSIVE MatchesFrom(_, _, _, _)
MatchesFrom(gi, f, i, matched) ==
    IF i > Len(gi) THEN matched
    ELSE IF PatternMatches(gi[i].pat, f)
         THEN MatchesFrom(gi, f, i + 1, ~gi[i].negate)
    ELSE MatchesFrom(gi, f, i + 1, matched)

MatchesPath(gi, f) == MatchesFrom(gi, f, 1, FALSE)

PredefinedMatch(path) ==
    \E i \in 1..Len(predefinedIgnores) : HasPrefix(path, predefinedIgnores[i])

shouldIgnore(path, gi, si) ==
    \/ PredefinedMatch(path)
    \/ gi # NIL /\ MatchesPath(gi[1], path)
    \/ si # NIL /\ MatchesPath(si[1], path)

-----------------------------------------------------------------------------
(* Regular expressions: the patterns of the selection file, for the        *)
(* syntax ^ . * $ and \c.                                                   *)

\* Length of the atom the expression re starts with.
AtomLen(re) == IF At(re, 1) = "\\" THEN 2 ELSE 1

AtomMatches(re, c) ==
    IF At(re, 1) = "\\" THEN c = At(re, 2)
    ELSE IF At(re, 1) = "." THEN c # "\n"
    ELSE c = At(re, 1)

RECURSIVE MatchHere(_, _)
MatchHere(re, text) ==
    IF re = "" THEN TRUE
    ELSE IF At(re, 1) = "$" THEN text = "" /\ MatchHere(SubSeq(re, 2, Len(re)), text)
    ELSE LET n == AtomLen(re)
             rest == SubSeq(re, n + 1, Len(re))
         IN IF rest # "" /\ At(rest, 1) = "*"
            THEN \E k \in 0..Len(text) :
                    /\ \A j \in 1..k : AtomMatches(re, At(text, j))
                    /\ MatchHere(SubSeq(rest, 2, Len(rest)), SubSeq(text, k + 1, Len(text)))
            ELSE /\ text # ""
                 /\ AtomMatches(re, At(text, 1))
                 /\ MatchHere(rest, SubSeq(text, 2, Len(text)))

\* Regexp.MatchString: the expression matches somewhere in the text.
MatchString(re, text) ==
    IF re # "" /\ At(re, 1) = "^"
    THEN MatchHere(SubSeq(re, 2, Len(re)), text)
    ELSE \E i \in 1..(Len(text) + 1) : MatchHere(re, SubSeq(text, i, Len(text)))

\* regexp.Compile rejects a repetition without an argument and a trailing
\* backslash.
CompileFails(pattern) ==
    LET p == IF HasPrefix(pattern, "^") THEN SubSeq(pattern, 2, Len(pattern))
             ELSE pattern
    IN \/ HasPrefix(p, "*")
       \/ HasSuffix(p, "\\") /\ ~HasSuffix(p, "\\\\")

-----------------------------------------------------------------------------
(* The filesystem under rootDir.  An entry is named by its path relative   *)
(* to rootDir, as filepath.Rel gives it: "." is rootDir itself.            *)

OutputPath == "tmp/output.txt"

PatternFile == "p.txt"

\* The directories and regular files a tree may hold.
Dirs == {".", ".git", "build", "src", "tmp", "vendor"}

Files == {".git/config", ".gitignore", ".summaryignore", "build/keep.txt",
          "logo.png", "main.go", PatternFile, "src/main.go", OutputPath,
          "vendor/v.go"}

IsDir(p) == p \in Dirs

\* The entries of the tree t in the order filepath.Walk and filepath.WalkDir
\* visit them.
AllSorted == SortPaths(Dirs \cup Files)

WalkOrder(t) == SelectSeq(AllSorted, LAMBDA p : p \in t)

\* os.ReadFile: <<bytes>>, or NIL when the file is missing or unreadable.
ReadFile(p) ==
    IF p \in tree /\ p \notin Dirs /\ p \notin env.readFileErr
    THEN <<content[p]>> ELSE NIL

\* Create without truncation: a file that exists keeps its bytes.
CreateKeep(fs, p) ==
    [q \in DOMAIN fs \cup {p} |-> IF q \in DOMAIN fs THEN fs[q] ELSE ""]

\* os.Create: the file exists and is empty afterwards.
Create(fs, p) == [q \in DOMAIN fs \cup {p} |-> IF q = p THEN "" ELSE fs[q]]

\* A write to the open output file appends.
Append2(fs, p, bytes) == [fs EXCEPT ![p] = @ \o bytes]

-----------------------------------------------------------------------------
(* The binary detector.                                                    *)

BufSize == 512

\* isBinary scanning the whole file instead of its first block.
isBinaryWholeFile(filePath) ==
    IF filePath \notin tree \/ filePath \in env.openErr THEN TRUE
    ELSE IF filePath \in env.readErr THEN TRUE
    ELSE \E i \in 1..Len(content[filePath]) : At(content[filePath], i) = NUL

isBinary(filePath) ==
    IF filePath \notin tree \/ filePath \in env.openErr THEN TRUE
    ELSE IF filePath \in env.readErr THEN TRUE
    ELSE LET n == Min(Len(content[filePath]), BufSize)
             buf == SubSeq(content[filePath], 1, n)
         IN \E i \in 1..n : At(buf, i) = NUL

\* The first revision of isBinary: any error of Open or Read, the io.EOF of
\* an empty file included, gives false.
isBinaryFirst(filePath) ==
    IF filePath \notin tree \/ filePath \in env.openErr THEN FALSE
    ELSE IF filePath \in env.readErr \/ Len(content[filePath]) = 0 THEN FALSE
    ELSE LET n == Min(Len(content[filePath]), BufSize)
             buf == SubSeq(content[filePath], 1, n)
         IN \E i \in 1..n : At(buf, i) = NUL

-----------------------------------------------------------------------------
(* The structure map and its JSON rendering.                               *)

\* structure[dirPath], the zero value when the key is absent.
Entry(st, dirPath) ==
    IF dirPath \in DOMAIN st THEN st[dirPath]
    ELSE [Directories |-> <<>>, Files |-> <<>>]

Put(st, dirPath, e) ==
    [k \in DOMAIN st \cup {dirPath} |-> IF k = dirPath THEN e ELSE st[k]]

RECURSIVE SortKeys(_)
SortKeys(S) ==
    IF S = {} THEN <<>>
    ELSE LET m == CHOOSE x \in S : \A y \in S \ {x} : StrLess(x, y, FALSE)
         IN <<m>> \o SortKeys(S \ {m})

Quote(name) == "\"" \o name \o "\""

RECURSIVE JoinLines(_, _)
JoinLines(names, indent) ==
    IF names = <<>> THEN ""
    ELSE indent \o Quote(Head(names))
         \o (IF Len(names) > 1 THEN ",\n" ELSE "\n")
         \o JoinLines(Tail(names), indent)

\* A []string: null when nil, else one element a line.
MarshalList(names) ==
    IF names = <<>> THEN "null"
    ELSE "[\n" \o JoinLines(names, "      ") \o "    ]"

MarshalEntry(key, e) ==
    "  " \o Quote(key) \o ": {\n"
    \o "    \"directories\": " \o MarshalList(e.Directories) \o ",\n"
    \o "    \"files\": " \o MarshalList(e.Files) \o "\n"
    \o "  }"

RECURSIVE MarshalEntries(_, _)
MarshalEntries(st, keys) ==
    IF keys = <<>> THEN ""
    ELSE MarshalEntry(Head(keys), st[Head(keys)])
         \o (IF Len(keys) > 1 THEN ",\n" ELSE "\n")
         \o MarshalEntries(st, Tail(keys))

\* json.MarshalIndent(structure, "", "  "): the keys in byte order.
MarshalIndent(st) ==
    IF DOMAIN st = {} THEN "{}"
    ELSE "{\n" \o MarshalEntries(st, SortKeys(DOMAIN st)) \o "}"

-----------------------------------------------------------------------------
(* Reading the selection file and the ignore files.                        *)

\* The loop of readRegexPatternsFromFile over the scanned lines.
RECURSIVE CompileLines(_, _)
CompileLines(lines, patterns) ==
    IF lines = <<>> THEN [err |-> "", patterns |-> patterns]
    ELSE LET pattern == TrimSpace(Head(lines)) IN
         IF pattern = "" THEN CompileLines(Tail(lines), patterns)
         ELSE IF CompileFails(pattern)
              THEN [err |-> "failed to compile regex pattern '" \o pattern \o "'",
                    patterns |-> <<>>]
         ELSE CompileLines(Tail(lines), Append(patterns, pattern))

readRegexPatternsFromFile(filePath) ==
    IF filePath \notin tree \/ filePath \in env.openErr
    THEN [err |-> "failed to open file", patterns |-> <<>>]
    ELSE CompileLines(ScanLines(content[filePath]), <<>>)

\* ignore.CompileIgnoreFile: err is "" on success, "notexist" for a missing
\* file, and the *GitIgnore is nil on any error.
CompileIgnoreFile(fpath) ==
    IF fpath \notin tree THEN [err |-> "notexist", gi |-> NIL]
    ELSE IF ReadFile(fpath) = NIL THEN [err |-> "read " \o fpath, gi |-> NIL]
    ELSE [err |-> "", gi |-> <<CompileIgnoreLines(Split(ReadFile(fpath)[1]))>>]

-----------------------------------------------------------------------------
(* generate() and generateProjectSummary().                                *)

NumRuns == 2

EmptyMap == [k \in {} |-> <<>>]

\* fmt.Fprintf(outFile, "### %s\n```\n%s\n```\n", relPath, content)
Section(relPath, bytes) ==
    "### " \o relPath \o "\n" \o Fence \o "\n" \o bytes \o "\n" \o Fence \o "\n"

\* The structure section and the heading of the file contents.
StructureSection(st) ==
    "## Project Structure\n" \o Fence \o "json\n" \o MarshalIndent(st)
    \o "\n" \o Fence \o "\n\n" \o "## File Contents\n\n"

\* The queue without the entries below the directory d (filepath.SkipDir).
SkipDir(q, d) == SelectSeq(q, LAMBDA e : ~Below(e, d))

\* The selection falling through to processFile when no pattern matches.
SelectedFallThrough(patterns, relPath) == TRUE

\* The selection testing the last pattern only.
SelectedLastOnly(patterns, relPath) ==
    \/ Len(patterns) = 0
    \/ MatchString(patterns[Len(patterns)], relPath)

\* The selection of the content walk: no patterns, or some pattern matches.
Selected(patterns, relPath) ==
    \/ Len(patterns) = 0
    \/ \E i \in 1..Len(patterns) : MatchString(patterns[i], relPath)

\* generate(): the prompts, and the selection file read.
Generate ==
    /\ pc = "idle"
    /\ runs' = runs + 1
    /\ LET r == IF option \in {"all", ""}
                THEN [err |-> "", patterns |-> <<>>]
                ELSE readRegexPatternsFromFile(option)
       IN IF r.err # ""
          THEN /\ stdout' = Append(stdout, "Error reading regex patterns: " \o r.err \o "\n")
               /\ pc' = "done"
               /\ UNCHANGED regexPatterns
          ELSE /\ regexPatterns' = r.patterns
               /\ pc' = "begin"
               /\ UNCHANGED stdout
    /\ UNCHANGED <<tree, content, env, option, queue, gitIgnore, summaryIgnore,
                   outOpen, structure, sections, visits, walkErrs, readErrs,
                   prevOut, bfile, bres>>

\* generateProjectSummary up to the open output file.
Begin ==
    /\ pc = "begin"
    /\ LET g == CompileIgnoreFile(".gitignore")
           s == CompileIgnoreFile(".summaryignore")
       IN IF g.err \notin {"", "notexist"}
          THEN /\ stdout' = Append(stdout, "failed to compile .gitignore: " \o g.err \o "\n")
               /\ pc' = "done"
               /\ UNCHANGED <<tree, content, queue, gitIgnore, summaryIgnore, outOpen>>
          ELSE IF s.err \notin {"", "notexist"}
          THEN /\ stdout' = Append(stdout, "failed to compile .summaryignore: " \o s.err \o "\n")
               /\ gitIgnore' = g.gi
               /\ pc' = "done"
               /\ UNCHANGED <<tree, content, queue, summaryIgnore, outOpen>>
          ELSE IF Dir(OutputPath) \notin tree
          THEN /\ stdout' = Append(stdout, "failed to create output file: " \o OutputPath)
               /\ gitIgnore' = g.gi
               /\ summaryIgnore' = s.gi
               /\ pc' = "done"
               /\ UNCHANGED <<tree, content, queue, outOpen>>
          ELSE /\ gitIgnore' = g.gi
               /\ summaryIgnore' = s.gi
               /\ tree' = tree \cup {OutputPath}
               /\ content' = Create(content, OutputPath)
               /\ outOpen' = TRUE
               /\ queue' = WalkOrder(tree')
               /\ pc' = "walk1"
               /\ UNCHANGED stdout
    /\ UNCHANGED <<env, option, regexPatterns, structure, sections, visits,
                   walkErrs, readErrs, runs, prevOut, bfile, bres>>

\* The callback of captureDirectoryStructure for the next entry of
\* filepath.Walk, which hands over a failed lstat of the entry, or a failed
\* read of the directory, as err.
StructVisit ==
    /\ pc = "walk1"
    /\ queue # <<>>
    /\ LET path == Head(queue)
           relPath == IF path = "." THEN "" ELSE path
           dirPath == IF Dir(relPath) = "." THEN "" ELSE Dir(relPath)
           entry == Entry(structure, dirPath)
       IN /\ visits' = Append(visits, <<1, path>>)
          /\ IF path \in env.lstatErr \/ (IsDir(path) /\ path \in env.readDirErr)
             THEN /\ walkErrs' = Append(walkErrs, [walk |-> 1, path |-> path])
                  /\ queue' = <<>>
                  /\ UNCHANGED structure
             ELSE IF shouldIgnore(relPath, gitIgnore, summaryIgnore)
             THEN /\ queue' = IF IsDir(path) THEN SkipDir(Tail(queue), path)
                              ELSE Tail(queue)
                  /\ UNCHANGED <<structure, walkErrs>>
             ELSE /\ structure' =
                        Put(structure, dirPath,
                            IF IsDir(path)
                            THEN [entry EXCEPT !.Directories = Append(@, Base(relPath))]
                            ELSE [entry EXCEPT !.Files = Append(@, Base(relPath))])
                  /\ queue' = Tail(queue)
                  /\ UNCHANGED walkErrs
    /\ UNCHANGED <<tree, content, env, option, pc, regexPatterns, gitIgnore,
                   summaryIgnore, outOpen, stdout, sections, readErrs, runs,
                   prevOut, bfile, bres>>

\* captureDirectoryStructure returns (the error of filepath.Walk is dropped);
\* the structure section and the contents heading are written.
WriteStructure ==
    /\ pc = "walk1"
    /\ queue = <<>>
    /\ content' = Append2(content, OutputPath, StructureSection(structure))
    /\ queue' = WalkOrder(tree)
    /\ pc' = "walk2"
    /\ UNCHANGED <<tree, env, option, regexPatterns, gitIgnore, summaryIgnore,
                   outOpen, structure, stdout, sections, visits, walkErrs,
                   readErrs, runs, prevOut, bfile, bres>>

\* processFile: what it prints, what it writes to outFile and what it returns.
processFile(path) ==
    LET relPath == path
        none == [err |-> "", print |-> <<>>, write |-> "", section |-> <<>>]
    IN IF shouldIgnore(relPath, gitIgnore, summaryIgnore)
       THEN [none EXCEPT !.print = <<"Ignoring " \o relPath \o "\n">>]
       ELSE IF isBinary(path)
       THEN [none EXCEPT !.print = <<"Ignoring binary file " \o relPath \o "\n">>]
       ELSE IF ReadFile(path) = NIL
       THEN [none EXCEPT !.err = "failed to read file " \o path]
       ELSE [none EXCEPT !.write = Section(relPath, ReadFile(path)[1]),
                         !.section = <<[path |-> relPath, body |-> ReadFile(path)[1]]>>]

\* The callback of the content walk for the next entry of filepath.WalkDir,
\* which visits a directory and then hands over a failed read of it as err.
\* An error the callback returns ends generateProjectSummary.
ContentVisit ==
    /\ pc = "walk2"
    /\ queue # <<>>
    /\ LET path == Head(queue)
           relPath == path
           dirErr == IsDir(path) /\ path # "." /\ path \in env.readDirErr
           r == IF IsDir(path) \/ ~Selected(regexPatterns, relPath)
                THEN [err |-> IF dirErr THEN "open " \o path ELSE "",
                      print |-> <<>>, write |-> "", section |-> <<>>]
                ELSE processFile(path)
       IN /\ visits' = Append(visits, <<2, path>>)
          /\ walkErrs' = IF dirErr THEN Append(walkErrs, [walk |-> 2, path |-> path])
                         ELSE walkErrs
          /\ readErrs' = IF r.err # "" /\ ~dirErr THEN Append(readErrs, path)
                         ELSE readErrs
          /\ content' = Append2(content, OutputPath, r.write)
          /\ sections' = sections \o r.section
          /\ IF r.err # ""
             THEN /\ stdout' = Append(stdout, "failed to process files: " \o r.err)
                  /\ queue' = <<>>
                  /\ outOpen' = FALSE
                  /\ pc' = "done"
             ELSE /\ stdout' = stdout \o r.print
                  /\ queue' = Tail(queue)
                  /\ UNCHANGED <<outOpen, pc>>
    /\ UNCHANGED <<tree, env, option, regexPatterns, gitIgnore, summaryIgnore,
                   structure, runs, prevOut, bfile, bres>>

\* filepath.WalkDir returned nil: generateProjectSummary returns.
Finish ==
    /\ pc = "walk2"
    /\ queue = <<>>
    /\ outOpen' = FALSE
    /\ pc' = "done"
    /\ UNCHANGED <<tree, content, env, option, queue, regexPatterns, gitIgnore,
                   summaryIgnore, structure, stdout, sections, visits, walkErrs,
                   readErrs, runs, prevOut, bfile, bres>>

\* The content of the output file, NIL when there is none.
Output == IF OutputPath \in tree THEN <<content[OutputPath]>> ELSE NIL

\* The tool is started again on the tree as the last run left it.
Rerun ==
    /\ pc = "done"
    /\ runs < NumRuns
    /\ prevOut' = Output
    /\ pc' = "idle"
    /\ regexPatterns' = <<>>
    /\ gitIgnore' = NIL
    /\ summaryIgnore' = NIL
    /\ structure' = EmptyMap
    /\ stdout' = <<>>
    /\ sections' = <<>>
    /\ visits' = <<>>
    /\ walkErrs' = <<>>
    /\ readErrs' = <<>>
    /\ UNCHANGED <<tree, content, env, option, queue, outOpen, runs, bfile, bres>>

-----------------------------------------------------------------------------
(* The trees, ignore files, selections and I/O failures of the runs.       *)

NoFaults ==
    [lstatErr |-> {}, readDirErr |-> {}, openErr |-> {}, readErr |-> {},
     readFileErr |-> {}]

\* No failure; a directory without search permission (its entries cannot be
\* stat'ed or opened); a directory without read permission; a file without
\* read permission; a file whose read fails after its first block; an
\* unreadable .gitignore.
Faults ==
    { NoFaults,
      [NoFaults EXCEPT !.lstatErr = {"build/keep.txt"}, !.openErr = {"build/keep.txt"}],
      [NoFaults EXCEPT !.readDirErr = {"src"}],
      [NoFaults EXCEPT !.openErr = {"main.go"}],
      [NoFaults EXCEPT !.readFileErr = {"main.go"}],
      [NoFaults EXCEPT !.readFileErr = {".gitignore"}] }

FaultyEntries(e) ==
    e.lstatErr \cup e.readDirErr \cup e.openErr \cup e.readErr \cup e.readFileErr

BaseTree == {".", "logo.png", "main.go", "src", "src/main.go"}

TreeParts ==
    { {}, {"build", "build/keep.txt", ".git", ".git/config", "vendor", "vendor/v.go"} }

TmpParts == { {}, {"tmp"}, {"tmp", OutputPath} }

GitignoreTexts == {"build\n", "build\n!build/keep.txt\n", "# deps\n\n/src\nvendor/\n"}

SummaryignoreTexts == {"logo.png\n"}

\* Anchored and unanchored patterns, a list of plain paths, blank lines only,
\* a glob where a regular expression is expected.
PatternTexts ==
    {"^src/.*\\.go$\n", "\\.go$\n  ^src/\n", "main.go\nb.txt\n", "\n  \n", "*.go\n"}

FileText(p) ==
    CASE p = "logo.png" -> "P" \o NUL \o "G"
      [] p = "main.go" -> "package main\n"
      [] p = "src/main.go" -> "package src\n"
      [] p = OutputPath -> "stale\n"
      [] OTHER -> Base(p) \o "\n"

\* The answer to the second prompt and the selection file it names.
Selections ==
    {[option |-> "all", file |-> NIL], [option |-> PatternFile, file |-> NIL]}
    \cup {[option |-> PatternFile, file |-> <<t>>] : t \in PatternTexts}

Optional(texts) == {NIL} \cup {<<t>> : t \in texts}

Init ==
    /\ \E part \in TreeParts, tmp \in TmpParts, sel \in Selections,
          g \in Optional(GitignoreTexts), s \in Optional(SummaryignoreTexts) :
            /\ tree = BaseTree \cup part \cup tmp
                          \cup (IF g = NIL THEN {} ELSE {".gitignore"})
                          \cup (IF s = NIL THEN {} ELSE {".summaryignore"})
                          \cup (IF sel.file = NIL THEN {} ELSE {PatternFile})
            /\ content = [f \in tree \ Dirs |->
                             CASE f = ".gitignore" -> g[1]
                               [] f = ".summaryignore" -> s[1]
                               [] f = PatternFile -> sel.file[1]
                               [] OTHER -> FileText(f)]
            /\ option = sel.option
    /\ env \in {e \in Faults : FaultyEntries(e) \subseteq tree}
    /\ pc = "idle"
    /\ queue = <<>>
    /\ regexPatterns = <<>>
    /\ gitIgnore = NIL
    /\ summaryIgnore = NIL
    /\ outOpen = FALSE
    /\ structure = EmptyMap
    /\ stdout = <<>>
    /\ sections = <<>>
    /\ visits = <<>>
    /\ walkErrs = <<>>
    /\ readErrs = <<>>
    /\ runs = 0
    /\ prevOut = NIL
    /\ bfile = [path |-> "", zeros |-> {}]
    /\ bres = [cur |-> NIL, first |-> NIL]

Next ==
    \/ Generate
    \/ Begin
    \/ StructVisit
    \/ WriteStructure
    \/ ContentVisit
    \/ Finish
    \/ Rerun

Spec == Init /\ [][Next]_vars

-----------------------------------------------------------------------------
(* isBinary on its own: files with zero bytes at chosen offsets.           *)

Beyond == 2

MaxTail == 1

BlobPath == "blob"

RECURSIVE Pad(_)
Pad(n) ==
    IF n = 0 THEN ""
    ELSE IF n % 2 = 0 THEN LET h == Pad(n \div 2) IN h \o h
    ELSE "x" \o Pad(n - 1)

\* A file of k bytes, then a zero byte or not, then m bytes, then a zero byte
\* or not; zeros holds the offsets of its zero bytes.
Blob(k, z1, m, z2) ==
    [bytes |-> Pad(k) \o (IF z1 THEN NUL ELSE "") \o Pad(m) \o (IF z2 THEN NUL ELSE ""),
     zeros |-> (IF z1 THEN {k} ELSE {})
               \cup (IF z2 THEN {k + (IF z1 THEN 1 ELSE 0) + m} ELSE {})]

InitBin ==
    /\ \E k \in 0..(BufSize + Beyond), m \in 0..MaxTail, z1 \in BOOLEAN, z2 \in BOOLEAN :
          /\ bfile = [path |-> BlobPath, zeros |-> Blob(k, z1, m, z2).zeros]
          /\ content = [f \in {BlobPath} |-> Blob(k, z1, m, z2).bytes]
    /\ tree = {".", BlobPath}
    /\ env \in {NoFaults, [NoFaults EXCEPT !.openErr = {BlobPath}],
                [NoFaults EXCEPT !.readErr = {BlobPath}]}
    /\ option = "all"
    /\ pc = "bin"
    /\ queue = <<>>
    /\ regexPatterns = <<>>
    /\ gitIgnore = NIL
    /\ summaryIgnore = NIL
    /\ outOpen = FALSE
    /\ structure = EmptyMap
    /\ stdout = <<>>
    /\ sections = <<>>
    /\ visits = <<>>
    /\ walkErrs = <<>>
    /\ readErrs = <<>>
    /\ runs = 0
    /\ prevOut = NIL
    /\ bres = [cur |-> NIL, first |-> NIL]

\* isBinary of src/generate.go is called on the file.
CallIsBinary ==
    /\ pc = "bin"
    /\ bres.cur = NIL
    /\ bres' = [bres EXCEPT !.cur = <<isBinary(bfile.path)>>]
    /\ UNCHANGED <<tree, content, env, option, pc, queue, regexPatterns,
                   gitIgnore, summaryIgnore, outOpen, structure, stdout,
                   sections, visits, walkErrs, readErrs, runs, prevOut, bfile>>

\* isBinary of the first revision is called on the file.
CallIsBinaryFirst ==
    /\ pc = "bin"
    /\ bres.first = NIL
    /\ bres' = [bres EXCEPT !.first = <<isBinaryFirst(bfile.path)>>]
    /\ UNCHANGED <<tree, content, env, option, pc, queue, regexPatterns,
                   gitIgnore, summaryIgnore, outOpen, structure, stdout,
                   sections, visits, walkErrs, readErrs, runs, prevOut, bfile>>

NextBin == CallIsBinary \/ CallIsBinaryFirst

SpecBin == InitBin /\ [][NextBin]_vars

-----------------------------------------------------------------------------
(* Properties.                                                             *)

Ignored(p) == shouldIgnore(IF p = "." THEN "" ELSE p, gitIgnore, summaryIgnore)

HasSection(p) == \E i \in 1..Len(sections) : sections[i].path = p

\* The key of the structure map for the directory holding p.
ParentKey(p) == IF Dir(p) = "." THEN "" ELSE Dir(p)

\* The path of the child named n under the key d.
ChildPath(d, n) == IF d = "" THEN n ELSE d \o "/" \o n

\* p is listed in the structure map.
InStructure(p) ==
    /\ ParentKey(p) \in DOMAIN structure
    /\ \/ InSeq(Base(p), structure[ParentKey(p)].Directories)
       \/ InSeq(Base(p), structure[ParentKey(p)].Files)

\* The position of the structure walk's visit of p, 0 when it was not visited.
VisitIndex(w, p) ==
    IF \E i \in 1..Len(visits) : visits[i] = <<w, p>>
    THEN CHOOSE i \in 1..Len(visits) : visits[i] = <<w, p>>
    ELSE 0

Contains(s, sub) ==
    \E i \in 1..(Len(s) - Len(sub) + 1) : SubSeq(s, i, i + Len(sub) - 1) = sub

Printed(sub) == \E i \in 1..Len(stdout) : Contains(stdout[i], sub)

\* The walks of this run have started.
Walked == visits # <<>>

\* The non-blank lines of the selection file, trimmed.
SelectionLines ==
    IF option = PatternFile /\ PatternFile \in tree
    THEN SelectSeq([i \in 1..Len(ScanLines(content[PatternFile])) |->
                        TrimSpace(ScanLines(content[PatternFile])[i])],
                   LAMBDA l : l # "")
    ELSE <<>>

\* A regular file of the tree that the content walk would copy: not
\* ignored, selected, text and readable.
Eligible(g) ==
    /\ g \in tree \ Dirs
    /\ ~Ignored(g)
    /\ Selected(regexPatterns, g)
    /\ ~isBinary(g)
    /\ ReadFile(g) # NIL

\* C1: a directory whose relative path shouldIgnore flags, and everything
\* below it, has no entry in the structure section and no file section.
C1_IgnoredDirContributesNothing ==
    \A d \in (tree \cap Dirs) \ {"."} :
        (Ignored(d) /\ env = NoFaults) =>
            \A e \in tree :
                (e = d \/ Below(e, d)) => ~InStructure(e) /\ ~HasSection(e)

\* The structure half of C1, which the code keeps.
IgnoredDirNotInStructure ==
    \A d \in (tree \cap Dirs) \ {"."} :
        Ignored(d) => \A e \in tree : (e = d \/ Below(e, d)) => ~InStructure(e)

\* C2 as stated: in regex-list mode a section is written only for a file
\* whose relative path matches a pattern read from the file, and one section
\* at most for a file.
C2_OnlyMatchingFiles ==
    option = PatternFile =>
        /\ \A i \in 1..Len(sections) :
              \E k \in 1..Len(SelectionLines) :
                  MatchString(SelectionLines[k], sections[i].path)
        /\ \A i, j \in 1..Len(sections) :
              sections[i].path = sections[j].path => i = j

\* C2 amended: the same, for a pattern file that holds a non-blank line.
C2_OnlyMatchingFilesGivenPattern ==
    (option = PatternFile /\ SelectionLines # <<>>) =>
        /\ \A i \in 1..Len(sections) :
              \E k \in 1..Len(SelectionLines) :
                  MatchString(SelectionLines[k], sections[i].path)
        /\ \A i, j \in 1..Len(sections) :
              sections[i].path = sections[j].path => i = j

\* A run in regex-list mode with two patterns: a file matching both and a
\* file matching one have one section, a text file matching none has none.
C2_Witness ==
    /\ pc = "done"
    /\ option = PatternFile
    /\ Len(regexPatterns) = 2
    /\ env = NoFaults
    /\ \A k \in 1..2 : MatchString(regexPatterns[k], "src/main.go")
    /\ HasSection("src/main.go")
    /\ HasSection("main.go")
    /\ Eligible("logo.png") = FALSE
    /\ ~Ignored(PatternFile) /\ ~isBinary(PatternFile)
    /\ ~HasSection(PatternFile)

\* C3: for a readable file isBinary (of either revision) returns true
\* exactly when a zero byte lies at one of the offsets 0..511.
C3_BinaryIffZeroInFirstBlock ==
    \A r \in {bres.cur, bres.first} :
        (pc = "bin" /\ env = NoFaults /\ r # NIL) =>
            /\ r[1] = (\E z \in bfile.zeros : z < 512)
            /\ content[bfile.path] = "" => r[1] = FALSE

\* isBinary returned false for a file whose only zero byte is at offset 512.
C3_Witness ==
    /\ pc = "bin"
    /\ env = NoFaults
    /\ bfile.zeros = {512}
    /\ bres.cur = <<FALSE>>

\* C4: a second run on the tree the first run left writes the output file
\* the first run wrote, byte for byte.
C4_SecondRunSameOutput ==
    (pc = "done" /\ runs >= 2) => Output = prevOut

\* The second run ended, and its output holds a section for the output file
\* itself, which the first run had left in the tree.
C4_Witness ==
    /\ pc = "done"
    /\ runs = 2
    /\ HasSection(OutputPath)
    /\ HasSection("main.go")
    /\ prevOut # NIL
    /\ Len(prevOut[1]) > 0

\* The files of the tree that cannot be opened or read.
Unreadable == (env.openErr \cup env.readErr \cup env.readFileErr) \cap (tree \ Dirs)

\* C5: when a selected file cannot be opened or read, in isBinary or in
\* os.ReadFile, the walk goes on: every later file that is not ignored,
\* selected, text and readable has its section when the run ends.
C5_UnreadableFileSkipped ==
    (pc = "done" /\ Walked /\ walkErrs = <<>>) =>
        \A f \in Unreadable :
            (~Ignored(f) /\ Selected(regexPatterns, f)) =>
                \A g \in tree : (WalkBefore(f, g) /\ Eligible(g)) => HasSection(g)

\* The isBinary half of C5, which the code keeps: a file that cannot be
\* opened is skipped and later files have their sections.
UnopenableFileSkipped ==
    (pc = "done" /\ Walked /\ walkErrs = <<>>) =>
        \A f \in env.openErr \cap tree :
            (~Ignored(f) /\ Selected(regexPatterns, f)) =>
                \A g \in tree : (WalkBefore(f, g) /\ Eligible(g)) => HasSection(g)

\* The selection file names one path that exists and one that does not, and
\* nothing stops the run: no I/O failure, the output directory exists, the
\* existing file is a text file that is not ignored.
ListOfTwo ==
    /\ Len(SelectionLines) = 2
    /\ \E i, j \in 1..2 :
          /\ SelectionLines[i] \in tree \ Dirs
          /\ SelectionLines[j] \notin tree
    /\ env = NoFaults
    /\ Dir(OutputPath) \in tree

Listed == CHOOSE p \in tree \ Dirs : InSeq(p, SelectionLines)

Missing == CHOOSE p \in {SelectionLines[1], SelectionLines[2]} : p \notin tree

BuiltinDirRules == {".git", ".vscode/", "node_modules/", "vendor/", ".idea/"}

DirName(rule) == TrimRight(rule, {"/"})

\* C7: a directory named by a built-in directory rule, directly under the
\* root, is flagged by shouldIgnore, is not listed under the root and
\* nothing below it is visited by the structure walk.
C7_BuiltinDirsSkipped ==
    \A rule \in BuiltinDirRules :
        (DirName(rule) \in tree /\ pc \in {"walk2", "done"} /\ Walked
            /\ env = NoFaults) =>
            /\ Ignored(DirName(rule))
            /\ ~InSeq(DirName(rule), Entry(structure, "").Directories)
            /\ \A e \in tree : Below(e, DirName(rule)) => VisitIndex(1, e) = 0

\* C8: every name listed under a key is the base name of a directory
\* (of a regular file) of the tree that is not ignored and whose parent has
\* the key as relative path, the root is listed nowhere, and the names are
\* in the order of the visits.
C8_StructureListsChildren ==
    \A d \in DOMAIN structure :
        env = NoFaults =>
        /\ \A i \in 1..Len(structure[d].Directories) :
              LET p == ChildPath(d, structure[d].Directories[i]) IN
              /\ p # "."
              /\ p \in tree \cap Dirs
              /\ ~Ignored(p)
              /\ ParentKey(p) = d
        /\ \A i \in 1..Len(structure[d].Files) :
              LET p == ChildPath(d, structure[d].Files[i]) IN
              /\ p \in tree \ Dirs
              /\ ~Ignored(p)
              /\ ParentKey(p) = d
        /\ \A kind \in {"Directories", "Files"} :
              \A i, j \in 1..Len(structure[d][kind]) :
                  i < j => VisitIndex(1, ChildPath(d, structure[d][kind][i]))
                            < VisitIndex(1, ChildPath(d, structure[d][kind][j]))

\* C8 without the root: what the code keeps.
StructureListsChildrenButRoot ==
    \A d \in DOMAIN structure :
        /\ \A i \in 1..Len(structure[d].Directories) :
              LET p == ChildPath(d, structure[d].Directories[i]) IN
              p # "." => (p \in tree \cap Dirs /\ ~Ignored(p) /\ ParentKey(p) = d)
        /\ \A i \in 1..Len(structure[d].Files) :
              LET p == ChildPath(d, structure[d].Files[i]) IN
              p \in tree \ Dirs /\ ~Ignored(p) /\ ParentKey(p) = d

\* C9: the output file the run writes is flagged by the built-in rules, is
\* not listed in the structure and has no section.
C9_OutputFileIgnored ==
    (pc = "done" /\ Walked /\ env = NoFaults) =>
        /\ PredefinedMatch(OutputPath)
        /\ ~InStructure(OutputPath)
        /\ ~HasSection(OutputPath)

\* C10: once a walk has reported an error for an entry, no section is
\* written for an entry that comes after it, and the run ends with the
\* error printed.
C10_WalkErrorEndsRun ==
    \A i \in 1..Len(walkErrs) :
        /\ \A j \in 1..Len(sections) :
              ~WalkBefore(walkErrs[i].path, sections[j].path)
        /\ pc = "done" => Printed("failed to process files")

\* The content-walk half of C10, which the code keeps.
ContentWalkErrorEndsRun ==
    \A i \in 1..Len(walkErrs) :
        walkErrs[i].walk = 2 =>
            /\ \A j \in 1..Len(sections) :
                  ~WalkBefore(walkErrs[i].path, sections[j].path)
            /\ pc = "done"
            /\ Printed("failed to process files")
====
